---- MODULE Spec2Model ----
(***************************************************************************)
(* A model of todology (src/index.py): a one-shot batch job that reads a   *)
(* configuration, loads the ledger of imported event identifiers, logs in  *)
(* to the task backend, fetches a calendar feed, filters its events,       *)
(* pushes one task per new event and stores the ledger.                    *)
(*                                                                         *)
(* The module holds several specifications over one set of variables:      *)
(*   SpecDate    start_of_last_month applied to every date of a range      *)
(*   SpecFilter  get_assignments applied to bounded calendars and ledgers  *)
(*   SpecMerge   merge applied to bounded nested documents                 *)
(*   SpecRate    the rate_limited wrapper under a wall and a CPU clock     *)
(*   Spec        main(), run after run, against a fixed feed               *)
(*   SpecLogin   todoist_login alone, with weak fairness of its step       *)
(* A specification holds the variables it does not use at their idle       *)
(* values.                                                                 *)
(***************************************************************************)
EXTENDS Integers, Sequences, FiniteSets, TLC

VARIABLES
    \* dates and the filter
    today,              \* date.today() (index.py:149)
    cutoff,             \* the value start_of_last_month() returned
    cal,                \* cal.subcomponents: the parsed feed
    already_imported,   \* the global ledger (index.py:51)
    assignments,        \* the list get_assignments returned
    \* merge
    source,             \* merge's first argument
    destination,        \* merge's second argument
    merged,             \* what merge returned, or the fault it raised
    \* the rate limiter
    platform,           \* what time.clock() measures: "unix" CPU time, "windows" wall time
    wall,               \* wall-clock seconds since the process started
    clk,                \* the value time.clock() returns now
    clockStarted,       \* time.clock() has been called once
    last_time_called,   \* the closure variable of rate_limited (index.py:89)
    rl_pc,              \* "idle", "sleeping" (index.py:97), "body" (index.py:99)
    wait,               \* the local wait of the wrapper (index.py:95)
    bodyStart,          \* wall time at which the wrapped body last started, or -1
    lastReturn,         \* wall time at which the previous invocation returned, or -1
    invoked,            \* number of invocations of the wrapper
    executed,           \* number of executions of the wrapped body
    \* main()
    pc,                 \* position of the run in main()
    run,                \* number of runs started
    feed,               \* the calendar the feed address serves
    loadedDoc,          \* yaml.safe_load(f) of config.yml
    config,             \* the merged configuration
    fault,              \* the exception that ended the run, "" while there is none
    file,               \* the ledger file <storage>/imported.json
    loaded,             \* what load_imported_uids returned in this run
    times,              \* todoist_login's _times of the attempt in progress
    loginCalls,         \* calls of todoist.login_with_api_token in this run
    keyErrors,          \* KeyErrors those calls raised in this run
    io,                 \* network calls and ledger writes made by this run
    warned,             \* warnings printed by this run
    project,            \* todoist_add's local project (index.py:182)
    idx,                \* index of the assignment the push loop is at
    created,            \* UIDs whose project.add_task returned in this run
    updated,            \* UIDs whose task.update() returned in this run
    tasks,              \* backend: number of tasks ever created per UID
    backend             \* backend: the project names and label names that exist

dateVars   == <<today, cutoff>>
filterVars == <<cal, already_imported, assignments>>
mergeVars  == <<source, destination, merged>>
rateVars   == <<platform, wall, clk, clockStarted, last_time_called, rl_pc, wait,
                bodyStart, lastReturn, invoked, executed>>
mainVars   == <<pc, run, feed, loadedDoc, config, fault, file, loaded, times,
                loginCalls, keyErrors, io, warned, project, idx, created, updated,
                tasks, backend>>

vars == <<dateVars, filterVars, mergeVars, rateVars, mainVars>>

\* Values are tagged with their Python type. None is Python's None, and the
\* value of a variable that holds nothing yet.
None == [t |-> "none", v |-> 0]
List(s) == [t |-> "list", v |-> s]

-----------------------------------------------------------------------------
(* Bounds of the model *)

\* The dates range over the years BaseYear .. BaseYear + YearSpan.
YearSpan == 2
\* The longest calendar (number of components) given to get_assignments.
MaxCal == 2
\* The rate limiter is followed for MaxTime seconds of wall time and MaxCalls
\* invocations.
MaxTime == 8
MaxCalls == 3
\* The number of runs of main() that are followed.
MaxRuns == 2

\* The year of the docstring's example ("Dec 1 2015").
BaseYear == 2015

-----------------------------------------------------------------------------
(* datetime.date *)

IsLeap(y) == (y % 4 = 0) /\ ((y % 100 # 0) \/ (y % 400 = 0))

DaysInMonth(y, m) ==
    IF m = 2 THEN (IF IsLeap(y) THEN 29 ELSE 28)
    ELSE IF m \in {4, 6, 9, 11} THEN 30 ELSE 31

\* date(year, month, day): the constructor's value; ValidDate is the check
\* whose failure makes the constructor raise ValueError.
date(year, month, day) == [year |-> year, month |-> month, day |-> day]

ValidDate(d) ==
    /\ d.year >= 1
    /\ d.month \in 1..12
    /\ d.day \in 1..DaysInMonth(d.year, d.month)

\* a >= b on dates: the comparison of (year, month, day).
DateGE(a, b) ==
    \/ a.year > b.year
    \/ a.year = b.year /\ a.month > b.month
    \/ a.year = b.year /\ a.month = b.month /\ a.day >= b.day

Years == BaseYear..(BaseYear + YearSpan)

Dates ==
    { d \in [year : Years, month : 1..12, day : 1..31] : ValidDate(d) }

\* start_of_last_month with year left alone in January: a plausible slip.
start_of_last_month_keeps_year(t) ==
    date(t.year, IF t.month >= 2 THEN t.month - 1 ELSE 12, 1)

\* start_of_last_month(), with date.today() as the parameter t.
start_of_last_month(t) ==
    LET year  == IF t.month >= 2 THEN t.year ELSE t.year - 1
        month == IF t.month >= 2 THEN t.month - 1 ELSE 12
    IN  date(year, month, 1)

\* date.toordinal(): the number of the day, day 1 being 0001-01-01. The claims
\* measure distances between dates with it.
DaysBeforeYear(y) ==
    365 * (y - 1) + ((y - 1) \div 4) - ((y - 1) \div 100) + ((y - 1) \div 400)

RECURSIVE DaysBeforeMonth(_, _)
DaysBeforeMonth(y, m) ==
    IF m = 1 THEN 0 ELSE DaysBeforeMonth(y, m - 1) + DaysInMonth(y, m - 1)

Ordinal(d) == DaysBeforeYear(d.year) + DaysBeforeMonth(d.year, d.month) + d.day

\* The day before d.
PrevDay(d) ==
    IF d.day > 1 THEN date(d.year, d.month, d.day - 1)
    ELSE IF d.month > 1
         THEN date(d.year, d.month - 1, DaysInMonth(d.year, d.month - 1))
         ELSE date(d.year - 1, 12, 31)

-----------------------------------------------------------------------------
(* Idle values of the variables a specification does not use *)

IdleDate   == today = None /\ cutoff = None
IdleFilter == cal = <<>> /\ already_imported = <<>> /\ assignments = None
IdleMerge  == source = None /\ destination = None /\ merged = None
IdleRate ==
    /\ platform = "unix" /\ wall = 0 /\ clk = 0 /\ clockStarted = FALSE
    /\ last_time_called = 0 /\ rl_pc = "idle" /\ wait = 0
    /\ bodyStart = -1 /\ lastReturn = -1 /\ invoked = 0 /\ executed = 0
IdleMain ==
    /\ pc = "idle" /\ run = 0 /\ feed = <<>> /\ loadedDoc = None /\ config = None
    /\ fault = "" /\ file = None /\ loaded = None /\ times = 0
    /\ loginCalls = 0 /\ keyErrors = 0 /\ io = {} /\ warned = {}
    /\ project = None /\ idx = 0 /\ created = <<>> /\ updated = <<>>
    /\ tasks = <<>> /\ backend = None

-----------------------------------------------------------------------------
(* SpecDate: start_of_last_month on every date of the range *)

InitDate ==
    /\ today \in Dates
    /\ cutoff = None
    /\ IdleFilter /\ IdleMerge /\ IdleRate /\ IdleMain

CallStartOfLastMonth ==
    /\ cutoff = None
    /\ cutoff' = start_of_last_month(today)
    /\ UNCHANGED <<today, filterVars, mergeVars, rateVars, mainVars>>

NextDate == CallStartOfLastMonth

SpecDate == InitDate /\ [][NextDate]_vars

\* C5: for every current date, start_of_last_month returns day 1 of the
\* calendar month before the current one ((year, m-1, 1) for m >= 2 and
\* (year-1, 12, 1) for January), a valid date strictly earlier than today and
\* at most 62 days before it; 2016-01-31 gives 2015-12-01 and 2016-03-15
\* gives 2016-02-01.
CutoffIsStartOfPreviousMonth ==
    /\ cutoff # None =>
        /\ cutoff.day = 1
        /\ today.month >= 2 => cutoff.year = today.year /\ cutoff.month = today.month - 1
        /\ today.month = 1  => cutoff.year = today.year - 1 /\ cutoff.month = 12
        /\ ValidDate(cutoff)
        /\ Ordinal(cutoff) < Ordinal(today)
        /\ Ordinal(today) - Ordinal(cutoff) <= 62
        \* the month before: the day before the first of this month lies in it
        /\ LET last == PrevDay(date(today.year, today.month, 1))
           IN  cutoff.year = last.year /\ cutoff.month = last.month
    /\ (today = date(2016, 1, 31) /\ cutoff # None) => cutoff = date(2015, 12, 1)
    /\ (today = date(2016, 3, 15) /\ cutoff # None) => cutoff = date(2016, 2, 1)

\* C5's case: the cutoff of a day of January has been computed.
CutoffOfJanuaryComputed ==
    cutoff # None /\ today = date(2016, 1, 31) /\ cutoff = date(2015, 12, 1)

-----------------------------------------------------------------------------
(* The calendar components and get_assignments *)

UIDs == {"u1", "u2"}

\* comp['DTSTART'].dt: a date, or a datetime with a time of day.
DateValue(d)        == [t |-> "date", v |-> d]
DatetimeValue(d, h) == [t |-> "datetime", v |-> [date |-> d, hour |-> h]]

\* A component of the given class; an Event carries the five consumed fields.
Component(kind, uid, dtstart) ==
    [kind |-> kind, UID |-> uid, DTSTART |-> dtstart, SUMMARY |-> "title",
     DESCRIPTION |-> "desc", URL |-> "url"]

\* class Assignment
Assignment(uid, title, desc, due, url) ==
    [uid |-> uid, title |-> title, desc |-> desc, due |-> due, url |-> url]

\* comp['UID'] in already_imported
InLedger(uid, ledger) == \E i \in 1..Len(ledger) : ledger[i] = uid

\* isinstance(start, datetime) and start.date()
StartDate(dtstart) == IF dtstart.t = "datetime" THEN dtstart.v.date ELSE dtstart.v

\* get_assignments comparing with > instead of >=: a start equal to the cutoff
\* is dropped.
RECURSIVE get_assignments_strict(_, _, _)
get_assignments_strict(c, ledger, t) ==
    IF c = <<>> THEN <<>>
    ELSE LET comp == c[Len(c)]
             prev == get_assignments_strict(SubSeq(c, 1, Len(c) - 1), ledger, t)
             start == StartDate(comp.DTSTART)
         IN  IF comp.kind # "Event" THEN prev
             ELSE IF InLedger(comp.UID, ledger) THEN prev
             ELSE IF DateGE(start, start_of_last_month(t)) /\ start # start_of_last_month(t)
                  THEN Append(prev, Assignment(comp.UID, comp.SUMMARY, comp.DESCRIPTION,
                                               start, comp.URL))
                  ELSE prev

\* get_assignments(cal), with the globals it reads as parameters: the ledger
\* already_imported and the date t that date.today() returns. The loop over
\* cal.subcomponents is the recursion on the prefix of c.
\* `type(comp).__name__ is not 'Event'` compares identities; a class name and
\* the literal are both interned by CPython, so it decides as # does.
RECURSIVE get_assignments(_, _, _)
get_assignments(c, ledger, t) ==
    IF c = <<>> THEN <<>>
    ELSE LET comp == c[Len(c)]
             prev == get_assignments(SubSeq(c, 1, Len(c) - 1), ledger, t)
             start == StartDate(comp.DTSTART)
         IN  IF comp.kind # "Event" THEN prev
             ELSE IF InLedger(comp.UID, ledger) THEN prev
             ELSE IF DateGE(start, start_of_last_month(t))
                  THEN Append(prev, Assignment(comp.UID, comp.SUMMARY, comp.DESCRIPTION,
                                               start, comp.URL))
                  ELSE prev

-----------------------------------------------------------------------------
(* SpecFilter: get_assignments on bounded calendars, ledgers and dates *)

\* The two days of the docstring's and the specification's examples.
FilterTodays == { date(2016, 1, 31), date(2016, 3, 15) }

\* Starts around the cutoff of t: the day before it, the cutoff, t itself; as a
\* date and as a datetime late in the day.
StartsFor(t) ==
    LET ds == { PrevDay(start_of_last_month(t)), start_of_last_month(t), t }
    IN  { DateValue(d) : d \in ds } \cup { DatetimeValue(d, 23) : d \in ds }

ComponentsFor(t) ==
    { Component(k, u, s) : k \in {"Event", "Todo"}, u \in UIDs, s \in StartsFor(t) }

SeqsUpTo(S, n) == UNION { [1..k -> S] : k \in 0..n }

Ledgers == { <<>>, <<"u1">>, <<"u2">>, <<"u1", "u2">> }

InitFilter ==
    /\ today \in FilterTodays
    /\ cutoff = None
    /\ cal \in SeqsUpTo(ComponentsFor(today), MaxCal)
    /\ already_imported \in Ledgers
    /\ assignments = None
    /\ IdleMerge /\ IdleRate /\ IdleMain

CallGetAssignments ==
    /\ assignments = None
    /\ assignments' = List(get_assignments(cal, already_imported, today))
    /\ UNCHANGED <<dateVars, cal, already_imported, mergeVars, rateVars, mainVars>>

NextFilter == CallGetAssignments

SpecFilter == InitFilter /\ [][NextFilter]_vars

\* The components the filter is to keep, by the specification's three rules.
KeptBy(comp, ledger, cut) ==
    /\ comp.kind = "Event"
    /\ comp.UID \notin { ledger[i] : i \in 1..Len(ledger) }
    /\ Ordinal(StartDate(comp.DTSTART)) >= Ordinal(cut)

ExpectedAssignments(c, ledger, cut) ==
    LET Test(comp) == KeptBy(comp, ledger, cut)
        kept == SelectSeq(c, Test)
    IN  [i \in 1..Len(kept) |->
            [uid |-> kept[i].UID, title |-> kept[i].SUMMARY, desc |-> kept[i].DESCRIPTION,
             due |-> StartDate(kept[i].DTSTART), url |-> kept[i].URL]]

-----------------------------------------------------------------------------
(* Documents (what yaml.safe_load returns) and merge *)

Str(x) == [t |-> "str", v |-> x]
Num(n) == [t |-> "int", v |-> n]
\* A dict: a function from the keys it holds to their values.
Map(f) == [t |-> "map", v |-> f]
EmptyMap == Map([k \in {} |-> None])
\* An exception raised in place of a result.
Raised(what) == [t |-> "raised", v |-> what]
\* dict.get's "no such key", for the lookups of the claims.
Missing == [t |-> "missing", v |-> 0]

\* merge(source, destination): the dict it returns (destination, updated in
\* place), or the exception it raises.
\*   source.items() raises AttributeError when source is not a dict;
\*   an empty source leaves destination alone, whatever it is;
\*   destination.setdefault / destination[key] = value raise (AttributeError or
\*   TypeError, by the first key visited) when destination is not a dict;
\*   each key of source then sets destination[key], to the recursive merge into
\*   the node setdefault returned (the value already there, or a new {}) when
\*   the value is a dict, and to the value itself otherwise.
RECURSIVE merge(_, _)
merge(src, dst) ==
    IF src.t # "map" THEN Raised("AttributeError")
    ELSE IF DOMAIN src.v = {} THEN dst
    ELSE IF dst.t # "map" THEN Raised("destination is not a dict")
    ELSE LET Sub(k) == IF src.v[k].t = "map"
                       THEN merge(src.v[k],
                                  IF k \in DOMAIN dst.v THEN dst.v[k] ELSE EmptyMap)
                       ELSE src.v[k]
         IN  IF \E k \in DOMAIN src.v : Sub(k).t = "raised"
             THEN Raised("destination is not a dict")
             ELSE Map([k \in (DOMAIN dst.v) \cup (DOMAIN src.v) |->
                        IF k \in DOMAIN src.v THEN Sub(k) ELSE dst.v[k]])

-----------------------------------------------------------------------------
(* SpecMerge: merge on nested documents of depth two over two keys *)

MergeKeys == {"a", "b"}

PartialFns(K, V) == UNION { [S -> V] : S \in SUBSET K }

\* The override's leaves and the default's leaves differ, so that a leaf of the
\* result tells where it came from. A list is a leaf.
SourceLeaves      == { Str("o"), List(<<"o">>) }
DestinationLeaves == { None, Str("d") }

DocsOver(leaves) ==
    LET inner == { Map(f) : f \in PartialFns(MergeKeys, leaves) }
    IN  { Map(f) : f \in PartialFns(MergeKeys, leaves \cup inner) }

InitMerge ==
    /\ source \in DocsOver(SourceLeaves)
    /\ destination \in DocsOver(DestinationLeaves)
    /\ merged = None
    /\ IdleDate /\ IdleFilter /\ IdleRate /\ IdleMain

CallMerge ==
    /\ merged = None
    /\ merged' = merge(source, destination)
    /\ UNCHANGED <<source, destination, dateVars, filterVars, rateVars, mainVars>>

NextMerge == CallMerge

SpecMerge == InitMerge /\ [][NextMerge]_vars

\* The paths of a document that end in a value that is not a dict.
RECURSIVE LeafPaths(_)
LeafPaths(doc) ==
    UNION { IF doc.v[k].t = "map"
            THEN { <<(<<k>> \o e[1]), e[2]>> : e \in LeafPaths(doc.v[k]) }
            ELSE { << <<k>>, doc.v[k] >> } : k \in DOMAIN doc.v }

RECURSIVE Lookup(_, _)
Lookup(doc, path) ==
    IF path = <<>> THEN doc
    ELSE IF doc.t = "map" /\ Head(path) \in DOMAIN doc.v
         THEN Lookup(doc.v[Head(path)], Tail(path))
         ELSE Missing

\* The path, or a prefix of it, holds a value in the document.
PresentIn(doc, path) ==
    \E n \in 1..Len(path) :
        LET x == Lookup(doc, SubSeq(path, 1, n))
        IN  x # Missing /\ (n = Len(path) \/ x.t # "map")

\* The result is a document with the override's leaves at their paths and the
\* default's leaves wherever the override holds nothing.
IsDeepMerge(result, override, default) ==
    /\ result.t = "map"
    /\ \A e \in LeafPaths(override) : Lookup(result, e[1]) = e[2]
    /\ \A e \in LeafPaths(default) :
          ~PresentIn(override, e[1]) => Lookup(result, e[1]) = e[2]

\* C6: for every default document D and every override document O,
\* merge(O, D) yields a document in which each leaf path of O carries O's
\* value and each path of D not present in O keeps D's value, nested mappings
\* merged recursively, a non-mapping value of O replacing D's value wholesale.
MergeYieldsDeepMerge ==
    merged # None => IsDeepMerge(merged, source, destination)

\* The override holds a non-empty dict where the default holds a value that is
\* not a dict: the case merge raises in.
RECURSIVE ShapesClash(_, _)
ShapesClash(override, default) ==
    \E k \in (DOMAIN override.v) \cap (DOMAIN default.v) :
        /\ override.v[k].t = "map"
        /\ \/ default.v[k].t # "map" /\ DOMAIN override.v[k].v # {}
           \/ default.v[k].t = "map" /\ ShapesClash(override.v[k], default.v[k])

\* Where the shapes do not clash, merge is the deep merge of C6; where they do,
\* it raises.
MergeYieldsDeepMergeUnlessShapesClash ==
    merged # None =>
        IF ShapesClash(source, destination)
        THEN merged.t = "raised"
        ELSE IsDeepMerge(merged, source, destination)

-----------------------------------------------------------------------------
(* SpecRate: the rate_limited wrapper. Time is counted in whole seconds. *)

\* min_interval = 1.0 / float(max_per_second), with max_per_second = 0.5
\* (index.py:180): two seconds.
min_interval == 2

\* time.clock() (Python 3 before 3.8): on Unix the CPU time of the process,
\* which stands still while the process sleeps or waits for the network; on
\* Windows the wall time since the first call of time.clock().
Platforms == {"unix", "windows"}

\* The wrapper waiting one second less than min_interval.
rate_wait_short(now, last) == (min_interval - 1) - (now - last)

\* elapsed = time.clock() - last_time_called; wait = min_interval - elapsed
rate_wait(now, last) == min_interval - (now - last)

InitRate ==
    /\ platform \in Platforms
    /\ wall = 0 /\ clk = 0 /\ clockStarted = FALSE
    /\ last_time_called = 0
    /\ rl_pc = "idle" /\ wait = 0
    /\ bodyStart = -1 /\ lastReturn = -1
    /\ invoked = 0 /\ executed = 0
    /\ IdleDate /\ IdleFilter /\ IdleMerge /\ IdleMain

\* A second passes while the process runs or waits for the network (between
\* invocations, or inside the wrapped body).
Tick ==
    /\ rl_pc \in {"idle", "body"}
    /\ wall < MaxTime
    /\ wall' = wall + 1
    /\ \/ platform = "windows" /\ clk' = IF clockStarted THEN clk + 1 ELSE clk
       \/ platform = "unix" /\ clk' \in {clk, clk + 1}
    /\ UNCHANGED <<platform, clockStarted, last_time_called, rl_pc, wait, bodyStart,
                   lastReturn, invoked, executed>>
    /\ UNCHANGED <<dateVars, filterVars, mergeVars, mainVars>>

\* rate_limited(*args): lines 94-96, up to the sleep or straight to the body.
Invoke ==
    /\ rl_pc = "idle"
    /\ invoked < MaxCalls
    /\ wall + min_interval + 1 <= MaxTime
    /\ invoked' = invoked + 1
    /\ clockStarted' = TRUE
    /\ wait' = rate_wait(clk, last_time_called)
    /\ IF wait' > 0
       THEN /\ rl_pc' = "sleeping"
            /\ UNCHANGED <<bodyStart, executed>>
       ELSE /\ rl_pc' = "body"
            /\ bodyStart' = wall
            /\ executed' = executed + 1
    /\ UNCHANGED <<platform, wall, clk, last_time_called, lastReturn>>
    /\ UNCHANGED <<dateVars, filterVars, mergeVars, mainVars>>

\* time.sleep(wait) returns after wait seconds, or a second later; the body
\* starts (line 99).
Sleep ==
    /\ rl_pc = "sleeping"
    /\ \E over \in {0, 1} :
        /\ wall' = wall + wait + over
        /\ clk' = IF platform = "windows" THEN clk + wait + over ELSE clk
    /\ rl_pc' = "body"
    /\ bodyStart' = wall'
    /\ executed' = executed + 1
    /\ UNCHANGED <<platform, clockStarted, last_time_called, wait, lastReturn, invoked>>
    /\ UNCHANGED <<dateVars, filterVars, mergeVars, mainVars>>

\* f returns: last_time_called = time.clock() (line 100), and the wrapper
\* returns.
BodyReturn ==
    /\ rl_pc = "body"
    /\ last_time_called' = clk
    /\ lastReturn' = wall
    /\ rl_pc' = "idle"
    /\ UNCHANGED <<platform, wall, clk, clockStarted, wait, bodyStart, invoked, executed>>
    /\ UNCHANGED <<dateVars, filterVars, mergeVars, mainVars>>

\* f raises: the exception leaves the wrapper before line 100.
BodyRaise ==
    /\ rl_pc = "body"
    /\ lastReturn' = -1
    /\ rl_pc' = "idle"
    /\ UNCHANGED <<platform, wall, clk, clockStarted, last_time_called, wait, bodyStart,
                   invoked, executed>>
    /\ UNCHANGED <<dateVars, filterVars, mergeVars, mainVars>>

NextRate == Tick \/ Invoke \/ Sleep \/ BodyReturn \/ BodyRaise

SpecRate == InitRate /\ [][NextRate]_vars

\* C7: of two successive invocations of the rate-limited function, the body of
\* the second starts at least 2 seconds after the first returned; an invocation
\* is delayed by sleeping, never dropped, and its body runs exactly once.
SuccessiveBodiesTwoSecondsApart ==
    /\ (rl_pc = "body" /\ lastReturn >= 0) => bodyStart >= lastReturn + 2
    /\ executed = IF rl_pc = "sleeping" THEN invoked - 1 ELSE invoked

\* C7's case: a second invocation, made right after the first returned, runs
\* its body two seconds later.
SecondBodyDelayedBySleep ==
    /\ rl_pc = "body" /\ invoked = 2 /\ executed = 2
    /\ lastReturn >= 0 /\ wait = 2
    /\ bodyStart = lastReturn + 2

-----------------------------------------------------------------------------
(* main(): configuration *)

DEFAULT_CONFIG ==
    Map([schoology |-> Map([calendar |-> None]),
         todoist   |-> Map([apiToken |-> None,
                            project  |-> Str("Inbox"),
                            labels   |-> List(<<"Todology">>)]),
         storage   |-> Str("~/.todology")])

\* What config.yml may hold: documents that pass the validation, documents
\* that lack a required string, documents of the wrong shape, and files that
\* cannot be opened or parsed.
DocValid ==
    Map([todoist   |-> Map([apiToken |-> Str("token")]),
         schoology |-> Map([calendar |-> Str("webcal://feed")])])
DocEmptyToken ==
    Map([todoist   |-> Map([apiToken |-> Str("")]),
         schoology |-> Map([calendar |-> Str("webcal://feed")])])
DocEmptyCalendar ==
    Map([todoist   |-> Map([apiToken |-> Str("token")]),
         schoology |-> Map([calendar |-> Str("")])])
DocNumberToken ==
    Map([todoist   |-> Map([apiToken |-> Num(1)]),
         schoology |-> Map([calendar |-> Str("webcal://feed")])])
DocListCalendar ==
    Map([todoist   |-> Map([apiToken |-> Str("token")]),
         schoology |-> Map([calendar |-> List(<<"webcal://feed">>)])])
DocNoCalendar == Map([todoist |-> Map([apiToken |-> Str("token")])])
DocNoToken    == Map([schoology |-> Map([calendar |-> Str("webcal://feed")])])
DocTodoistScalar ==
    Map([todoist   |-> Str("token"),
         schoology |-> Map([calendar |-> Str("webcal://feed")])])
DocStorageMap ==
    Map([todoist   |-> Map([apiToken |-> Str("token")]),
         schoology |-> Map([calendar |-> Str("webcal://feed")]),
         storage   |-> Map([path |-> Str("/tmp")])])
DocStorageNumber ==
    Map([todoist   |-> Map([apiToken |-> Str("token")]),
         schoology |-> Map([calendar |-> Str("webcal://feed")]),
         storage   |-> Num(1)])

MappingDocs ==
    { DocValid, DocEmptyToken, DocEmptyCalendar, DocNumberToken, DocListCalendar,
      DocNoCalendar, DocNoToken, DocTodoistScalar, DocStorageMap, DocStorageNumber,
      EmptyMap }

\* An empty file parses to None; a scalar and a list are documents too.
NonMappingDocs == { None, Str("text"), List(<<"text">>) }

\* open('config.yml') or yaml.safe_load raising.
UnreadableDocs == { Raised("FileNotFoundError"), Raised("YAMLError") }

ConfigDocs == MappingDocs \cup NonMappingDocs \cup UnreadableDocs

\* Lines 214-218: config = merge(yaml.safe_load(f), DEFAULT_CONFIG.copy()),
\* then the isinstance(config, dict) check with its warning and fallback.
load_config(doc) ==
    IF doc.t = "raised" THEN [config |-> None, fault |-> doc.v, warned |-> {}]
    ELSE LET m == merge(doc, DEFAULT_CONFIG)
         IN  IF m.t = "raised"
             THEN [config |-> None, fault |-> m.v, warned |-> {}]
             ELSE IF m.t # "map"
                  THEN [config |-> DEFAULT_CONFIG, fault |-> "",
                        warned |-> {"invalid-config"}]
                  ELSE [config |-> m, fault |-> "", warned |-> {}]

\* expanduser(path): a leading "~" becomes the home directory.
expanduser(path) ==
    IF path = Str("~/.todology") THEN Str("/home/user/.todology") ELSE path

\* config[section][key]: the value, or the exception the subscripts raise.
Subscript2(cfg, section, key) ==
    IF section \notin DOMAIN cfg.v THEN Raised("KeyError")
    ELSE IF cfg.v[section].t # "map" THEN Raised("TypeError")
    ELSE IF key \notin DOMAIN cfg.v[section].v THEN Raised("KeyError")
    ELSE cfg.v[section].v[key]

\* The validation without the check of the calendar address.
validate_token_only(cfg) ==
    IF cfg.v["storage"].t # "str" THEN [config |-> cfg, fault |-> "TypeError"]
    ELSE LET token == Subscript2(cfg, "todoist", "apiToken")
         IN  IF token.t = "raised" THEN [config |-> cfg, fault |-> token.v]
             ELSE IF token.t # "str" THEN [config |-> cfg, fault |-> "Invalid API Token!"]
             ELSE [config |-> Map([cfg.v EXCEPT !["storage"] = expanduser(@)]),
                   fault |-> ""]

\* Lines 219-225: expanduser on the storage path (TypeError when it is not a
\* string), then the two isinstance(..., str) checks.
validate(cfg) ==
    IF cfg.v["storage"].t # "str" THEN [config |-> cfg, fault |-> "TypeError"]
    ELSE LET token    == Subscript2(cfg, "todoist", "apiToken")
             calendar == Subscript2(cfg, "schoology", "calendar")
             expanded == Map([cfg.v EXCEPT !["storage"] = expanduser(@)])
         IN  IF token.t = "raised" THEN [config |-> expanded, fault |-> token.v]
             ELSE IF token.t # "str"
                  THEN [config |-> expanded, fault |-> "Invalid API Token!"]
             ELSE IF calendar.t = "raised" THEN [config |-> expanded, fault |-> calendar.v]
             ELSE IF calendar.t # "str"
                  THEN [config |-> expanded, fault |-> "Invalid Calendar URL!"]
             ELSE [config |-> expanded, fault |-> ""]

-----------------------------------------------------------------------------
(* main(): the ledger file *)

\* The file <storage>/imported.json: absent, not JSON, JSON null, or a JSON
\* array of identifiers.
MissingFile == [t |-> "missing", v |-> 0]
CorruptFile == [t |-> "corrupt", v |-> 0]

\* load_imported_uids(path): [] for a missing file, for a file json.load
\* rejects and for JSON null; otherwise the array the file holds.
load_imported_uids(f) ==
    IF f.t = "missing" THEN <<>>
    ELSE IF f.t = "corrupt" THEN <<>>
    ELSE IF f = None THEN <<>>
    ELSE f.v

\* store_imported_uids(directory, path): json.dump(already_imported, f)
store_imported_uids(ledger) == List(ledger)

-----------------------------------------------------------------------------
(* main(): login, push *)

\* The retry bound of todoist_login.
MaxRetries == 10

\* todoist_login retrying once more: _times > 10 for _times >= 10.
after_KeyError_off_by_one(t) == IF t > MaxRetries THEN "raise" ELSE "retry"

\* todoist_login's except KeyError branch (lines 203-208).
after_KeyError(t) == IF t >= MaxRetries THEN "raise" ELSE "retry"

\* The push loop appending the identifier whether task.update() returned or
\* raised.
ledger_after_update_always(ledger, uid, ok) == Append(ledger, uid)

\* Lines 193-194: task.update() then already_imported.append(assignment.uid);
\* an exception of update() skips the append.
ledger_after_update(ledger, uid, ok) == IF ok THEN Append(ledger, uid) ELSE ledger

\* Outcomes of a call to the backend or the network.
Outcomes == {"ok", "fault"}

-----------------------------------------------------------------------------
(* Spec: main(), run after run *)

MainToday == date(2016, 1, 31)

EventAt(uid, dtstart) == Component("Event", uid, dtstart)

\* The feed of the end-to-end example: u1 starts on the cutoff, u2 the day
\* before it.
FeedExample ==
    << EventAt("u1", DateValue(start_of_last_month(MainToday))),
       EventAt("u2", DateValue(PrevDay(start_of_last_month(MainToday)))) >>

\* A feed with two importable events and a component that is no event.
FeedTwo ==
    << EventAt("u1", DatetimeValue(start_of_last_month(MainToday), 23)),
       Component("Todo", "u0", DateValue(MainToday)),
       EventAt("u2", DateValue(MainToday)) >>

Feeds == { FeedExample, FeedTwo }

InitialFiles == { MissingFile, CorruptFile, None, List(<<"u0">>), List(<<"u1">>) }

\* The identifiers a ledger file holds.
FileIds(f) == IF f.t = "list" THEN { f.v[i] : i \in 1..Len(f.v) } ELSE {}

Init ==
    /\ today = MainToday
    /\ cutoff = None
    /\ feed \in Feeds
    /\ file \in InitialFiles
    \* an identifier of the ledger is one whose task was created by an earlier run
    /\ tasks = [u \in UIDs |-> IF u \in FileIds(file) THEN 1 ELSE 0]
    /\ backend \in { [projects |-> {}, labels |-> {}],
                     [projects |-> {"Inbox"}, labels |-> {"Todology"}] }
    /\ pc = "idle" /\ run = 0
    /\ loadedDoc = None /\ config = None /\ fault = "" /\ loaded = None
    /\ times = 0 /\ loginCalls = 0 /\ keyErrors = 0
    /\ io = {} /\ warned = {} /\ project = None /\ idx = 0
    /\ created = <<>> /\ updated = <<>>
    /\ cal = <<>> /\ already_imported = <<>> /\ assignments = None
    /\ IdleMerge /\ IdleRate

\* The process starts: the globals and locals of a run are fresh; the file, the
\* backend and the feed are what the runs before left.
StartRun ==
    /\ pc \in {"idle", "done", "aborted"}
    /\ run < MaxRuns
    /\ run' = run + 1
    /\ pc' = "config"
    /\ loadedDoc' \in ConfigDocs
    /\ config' = None /\ fault' = "" /\ loaded' = None
    /\ times' = 0 /\ loginCalls' = 0 /\ keyErrors' = 0
    /\ io' = {} /\ warned' = {} /\ project' = None /\ idx' = 0
    /\ created' = <<>> /\ updated' = <<>>
    /\ cal' = <<>> /\ already_imported' = <<>> /\ assignments' = None
    /\ UNCHANGED <<dateVars, feed, file, tasks, backend, mergeVars, rateVars>>

\* Lines 214-218.
LoadConfig ==
    /\ pc = "config"
    /\ LET r == load_config(loadedDoc)
       IN  /\ config' = r.config
           /\ warned' = warned \cup r.warned
           /\ fault' = r.fault
           /\ pc' = IF r.fault = "" THEN "validate" ELSE "aborted"
    /\ UNCHANGED <<run, feed, loadedDoc, file, loaded, times, loginCalls, keyErrors, io,
                   project, idx, created, updated, tasks, backend>>
    /\ UNCHANGED <<dateVars, filterVars, mergeVars, rateVars>>

\* Lines 219-225.
Validate ==
    /\ pc = "validate"
    /\ LET r == validate(config)
       IN  /\ config' = r.config
           /\ fault' = r.fault
           /\ pc' = IF r.fault = "" THEN "load" ELSE "aborted"
    /\ UNCHANGED <<run, feed, loadedDoc, file, loaded, times, loginCalls, keyErrors, io,
                   warned, project, idx, created, updated, tasks, backend>>
    /\ UNCHANGED <<dateVars, filterVars, mergeVars, rateVars>>

\* Line 227.
LoadLedger ==
    /\ pc = "load"
    /\ already_imported' = load_imported_uids(file)
    /\ loaded' = List(load_imported_uids(file))
    /\ pc' = "login"
    /\ UNCHANGED <<run, feed, loadedDoc, config, fault, file, times, loginCalls, keyErrors,
                   io, warned, project, idx, created, updated, tasks, backend>>
    /\ UNCHANGED <<dateVars, cal, assignments, mergeVars, rateVars>>

\* Line 229: one call of todoist.login_with_api_token inside todoist_login, and
\* what todoist_login does with its outcome.
LoginAttempt ==
    /\ pc = "login"
    /\ loginCalls' = loginCalls + 1
    /\ io' = io \cup {"login"}
    /\ \E outcome \in {"ok", "KeyError", "fault"} :
        \/ /\ outcome = "ok"
           /\ pc' = "fetch"
           /\ UNCHANGED <<times, keyErrors, fault>>
        \/ /\ outcome = "KeyError"
           /\ keyErrors' = keyErrors + 1
           /\ IF after_KeyError(times) = "raise"
              THEN /\ pc' = "aborted"
                   /\ fault' = "Unable to login to Todoist."
                   /\ UNCHANGED times
              ELSE /\ times' = times + 1
                   /\ UNCHANGED <<pc, fault>>
        \/ /\ outcome = "fault"
           /\ pc' = "aborted"
           /\ fault' = "login fault"
           /\ UNCHANGED <<times, keyErrors>>
    /\ UNCHANGED <<run, feed, loadedDoc, config, file, loaded, warned, project, idx,
                   created, updated, tasks, backend>>
    /\ UNCHANGED <<dateVars, filterVars, mergeVars, rateVars>>

\* Lines 231-232: urlopen and Calendar.from_ical.
Fetch ==
    /\ pc = "fetch"
    /\ io' = io \cup {"fetch"}
    /\ \E outcome \in Outcomes :
        IF outcome = "ok"
        THEN /\ cal' = feed
             /\ pc' = "filter"
             /\ UNCHANGED fault
        ELSE /\ pc' = "aborted"
             /\ fault' = "feed fault"
             /\ UNCHANGED cal
    /\ UNCHANGED <<run, feed, loadedDoc, config, file, loaded, times, loginCalls, keyErrors,
                   warned, project, idx, created, updated, tasks, backend>>
    /\ UNCHANGED <<dateVars, already_imported, assignments, mergeVars, rateVars>>

\* Line 234.
Filter ==
    /\ pc = "filter"
    /\ assignments' = List(get_assignments(cal, already_imported, today))
    /\ warned' = warned \cup
                 (IF \E i \in 1..Len(cal) : cal[i].kind # "Event"
                  THEN {"unknown-kind"} ELSE {})
    /\ pc' = "get_project"
    /\ UNCHANGED <<run, feed, loadedDoc, config, fault, file, loaded, times, loginCalls,
                   keyErrors, io, project, idx, created, updated, tasks, backend>>
    /\ UNCHANGED <<dateVars, cal, already_imported, mergeVars, rateVars>>

ProjectName == config.v["todoist"].v["project"].v
LabelNames  == LET l == config.v["todoist"].v["labels"].v
               IN  { l[i] : i \in 1..Len(l) }

\* Line 236 into todoist_add, line 182: user.get_project(projectName). The
\* rate_limited wrapper delays the call (SpecRate follows it); its closure
\* variable last_time_called lives and dies with the process, and a run calls
\* todoist_add once, so the delay is all a run sees of the wrapper.
GetProject ==
    /\ pc = "get_project"
    /\ io' = io \cup {"get_project"}
    /\ \E outcome \in Outcomes :
        IF outcome = "ok"
        THEN /\ project' = IF ProjectName \in backend.projects
                           THEN Str(ProjectName) ELSE None
             /\ pc' = "get_labels"
             /\ UNCHANGED fault
        ELSE /\ pc' = "aborted"
             /\ fault' = "backend fault"
             /\ UNCHANGED project
    /\ UNCHANGED <<run, feed, loadedDoc, config, file, loaded, times, loginCalls, keyErrors,
                   warned, idx, created, updated, tasks, backend>>
    /\ UNCHANGED <<dateVars, filterVars, mergeVars, rateVars>>

\* Line 183: get_label for each label name, adding the labels that are missing.
GetLabels ==
    /\ pc = "get_labels"
    /\ io' = io \cup {"get_label"}
    /\ \E outcome \in Outcomes :
        IF outcome = "ok"
        THEN /\ backend' = [backend EXCEPT !.labels = @ \cup LabelNames]
             /\ pc' = "add_project"
             /\ UNCHANGED fault
        ELSE /\ pc' = "aborted"
             /\ fault' = "backend fault"
             /\ UNCHANGED backend
    /\ UNCHANGED <<run, feed, loadedDoc, config, file, loaded, times, loginCalls, keyErrors,
                   warned, project, idx, created, updated, tasks>>
    /\ UNCHANGED <<dateVars, filterVars, mergeVars, rateVars>>

\* Lines 185-186: the project is created when get_project found none.
AddProject ==
    /\ pc = "add_project"
    /\ IF project = None
       THEN /\ io' = io \cup {"add_project"}
            /\ \E outcome \in Outcomes :
                IF outcome = "ok"
                THEN /\ backend' = [backend EXCEPT !.projects = @ \cup {ProjectName}]
                     /\ project' = Str(ProjectName)
                     /\ pc' = "loop"
                     /\ UNCHANGED fault
                ELSE /\ pc' = "aborted"
                     /\ fault' = "backend fault"
                     /\ UNCHANGED <<backend, project>>
       ELSE /\ pc' = "loop"
            /\ UNCHANGED <<io, backend, project, fault>>
    /\ idx' = 1
    /\ UNCHANGED <<run, feed, loadedDoc, config, file, loaded, times, loginCalls, keyErrors,
                   warned, created, updated, tasks>>
    /\ UNCHANGED <<dateVars, filterVars, mergeVars, rateVars>>

\* Line 189: project.add_task for the assignment the loop is at.
AddTask ==
    /\ pc = "loop"
    /\ idx <= Len(assignments.v)
    /\ io' = io \cup {"add_task"}
    /\ \E outcome \in Outcomes :
        IF outcome = "ok"
        THEN /\ tasks' = [tasks EXCEPT ![assignments.v[idx].uid] = @ + 1]
             /\ created' = Append(created, assignments.v[idx].uid)
             /\ pc' = "update"
             /\ UNCHANGED fault
        ELSE /\ pc' = "aborted"
             /\ fault' = "backend fault"
             /\ UNCHANGED <<tasks, created>>
    /\ UNCHANGED <<run, feed, loadedDoc, config, file, loaded, times, loginCalls, keyErrors,
                   warned, project, idx, updated, backend>>
    /\ UNCHANGED <<dateVars, filterVars, mergeVars, rateVars>>

\* Lines 190-194: the fields of the task are set, task.update() is called, and
\* the identifier is appended to the ledger when update() returned.
UpdateTask ==
    /\ pc = "update"
    /\ io' = io \cup {"update"}
    /\ \E outcome \in Outcomes :
        /\ already_imported' =
               ledger_after_update(already_imported, assignments.v[idx].uid, outcome = "ok")
        /\ IF outcome = "ok"
           THEN /\ updated' = Append(updated, assignments.v[idx].uid)
                /\ idx' = idx + 1
                /\ pc' = "loop"
                /\ UNCHANGED fault
           ELSE /\ pc' = "aborted"
                /\ fault' = "backend fault"
                /\ UNCHANGED <<updated, idx>>
    /\ UNCHANGED <<run, feed, loadedDoc, config, file, loaded, times, loginCalls, keyErrors,
                   warned, project, created, tasks, backend>>
    /\ UNCHANGED <<dateVars, cal, assignments, mergeVars, rateVars>>

\* The loop ends, todoist_add returns, and line 238 stores the ledger.
Store ==
    /\ pc = "loop"
    /\ idx > Len(assignments.v)
    /\ file' = store_imported_uids(already_imported)
    /\ io' = io \cup {"store"}
    /\ pc' = "done"
    /\ UNCHANGED <<run, feed, loadedDoc, config, fault, loaded, times, loginCalls, keyErrors,
                   warned, project, idx, created, updated, tasks, backend>>
    /\ UNCHANGED <<dateVars, filterVars, mergeVars, rateVars>>

RunStep ==
    \/ LoadConfig \/ Validate \/ LoadLedger \/ LoginAttempt \/ Fetch \/ Filter
    \/ GetProject \/ GetLabels \/ AddProject \/ AddTask \/ UpdateTask \/ Store

Next == StartRun \/ RunStep

Spec == Init /\ [][Next]_vars

-----------------------------------------------------------------------------
(* SpecLogin: todoist_login, from every state main() calls it in *)

InitLogin ==
    /\ today = MainToday
    /\ cutoff = None
    /\ feed \in Feeds
    /\ file \in InitialFiles
    /\ tasks = [u \in UIDs |-> IF u \in FileIds(file) THEN 1 ELSE 0]
    /\ backend \in { [projects |-> {}, labels |-> {}],
                     [projects |-> {"Inbox"}, labels |-> {"Todology"}] }
    /\ pc = "login" /\ run = 1
    /\ loadedDoc \in { d \in MappingDocs :
                          load_config(d).fault = ""
                          /\ validate(load_config(d).config).fault = "" }
    /\ config = validate(load_config(loadedDoc).config).config
    /\ fault = ""
    /\ loaded = List(load_imported_uids(file))
    /\ already_imported = load_imported_uids(file)
    /\ times = 0 /\ loginCalls = 0 /\ keyErrors = 0
    /\ io = {} /\ warned = {} /\ project = None /\ idx = 0
    /\ created = <<>> /\ updated = <<>>
    /\ cal = <<>> /\ assignments = None
    /\ IdleMerge /\ IdleRate

NextLogin == LoginAttempt

\* Each call of login_with_api_token blocks until it returns or raises, and
\* todoist_login then goes on: the step that is enabled is taken.
SpecLogin == InitLogin /\ [][NextLogin]_vars /\ WF_vars(LoginAttempt)

\* C4: todoist_login always terminates. A KeyError is retried at most 10 times
\* after the first attempt (11 calls at most); when every attempt raises it the
\* login ends in the fatal error; a successful attempt returns at once, and any
\* other fault propagates on its first occurrence, without a retry.
LoginEndsWithinElevenCalls ==
    /\ [](loginCalls <= 11)
    /\ [](pc = "login" => loginCalls = keyErrors /\ times = keyErrors /\ times <= 10)
    /\ [](fault = "Unable to login to Todoist." =>
            pc = "aborted" /\ keyErrors = 11 /\ loginCalls = 11)
    /\ [](pc = "fetch" => loginCalls = keyErrors + 1 /\ fault = "")
    /\ [](fault = "login fault" => pc = "aborted" /\ loginCalls = keyErrors + 1)
    /\ <>(pc # "login")

\* C4's case: the eleventh call raised KeyError too and the login gave up.
LoginGaveUpAfterElevenKeyErrors ==
    pc = "aborted" /\ fault = "Unable to login to Todoist." /\ loginCalls = 11

-----------------------------------------------------------------------------
(* Claims about main() *)

\* C1: when a backend fault is raised while todoist_add pushes the k-th
\* assignment, the run aborts and the identifiers appended to the in-memory
\* ledger before the fault are still written to the ledger file at the end of
\* that run.
PushFaultStillStoresLedger ==
    (pc = "aborted" /\ fault = "backend fault") =>
        \A i \in 1..Len(updated) : updated[i] \in FileIds(file)

IsString(x)         == x.t = "str"
IsNonEmptyString(x) == x.t = "str" /\ x.v # ""

\* The run made no network call and wrote no ledger file, and it is at the
\* validation or was ended by it.
NothingDoneYet == io = {} /\ pc \in {"validate", "aborted"}

\* C3 as stated: if after the merge todoist.apiToken or schoology.calendar is
\* not a non-empty string (absent, null, not a string, or empty), the run
\* aborts before any network call, login, fetch, backend write or ledger write.
RunStopsUnlessNonEmptyStrings ==
    (config # None /\ pc # "config"
        /\ ~(IsNonEmptyString(Subscript2(config, "todoist", "apiToken"))
             /\ IsNonEmptyString(Subscript2(config, "schoology", "calendar"))))
    => NothingDoneYet

\* C3 as amended: if after the merge todoist.apiToken or schoology.calendar is
\* not a string (absent, null or a value of another type), the run aborts
\* before any network call, login, fetch, backend write or ledger write. An
\* empty string passes the validation.
RunStopsUnlessStrings ==
    (config # None /\ pc # "config"
        /\ ~(IsString(Subscript2(config, "todoist", "apiToken"))
             /\ IsString(Subscript2(config, "schoology", "calendar"))))
    => NothingDoneYet

\* C3's case: the token is a string, the calendar address is not, and the
\* validation ended the run before any call.
RunStoppedByCalendarCheck ==
    /\ pc = "aborted" /\ fault = "Invalid Calendar URL!" /\ io = {}
    /\ IsString(Subscript2(config, "todoist", "apiToken"))

\* C8: when the document loaded from config.yml is not a mapping (null, a
\* scalar, a list), the loader does not fault at the merge: it discards the
\* document, prints the invalid-config warning and goes on with the defaults.
NonMappingConfigFallsBackToDefaults ==
    (loadedDoc \in NonMappingDocs /\ pc \notin {"idle", "config"}) =>
        /\ "invalid-config" \in warned
        /\ config # None
        /\ fault \notin {"AttributeError", "destination is not a dict"}

\* The identifiers of a list of assignment records, in order.
Uids(as) == [i \in 1..Len(as) |-> as[i].uid]

\* C9: at every point of a run the in-memory ledger is the ledger loaded at
\* the start followed, in push order, by the identifiers of exactly the
\* assignments whose task has been created and updated so far; the file a
\* fault-free run writes holds the loaded identifiers and the identifiers of
\* all the assignments the filter returned, and nothing else (empty ledger, u1
\* on the cutoff and u2 the day before: the file holds exactly <<"u1">>).
LedgerIsLoadedThenUpdated ==
    /\ loaded = None => already_imported = <<>> /\ updated = <<>>
    /\ loaded # None => already_imported = loaded.v \o updated
    /\ assignments = None => updated = <<>>
    /\ assignments # None =>
          /\ Len(updated) <= Len(assignments.v)
          /\ updated = SubSeq(Uids(assignments.v), 1, Len(updated))
          /\ \A i \in 1..Len(updated) : i <= Len(created) /\ created[i] = updated[i]
    /\ pc = "done" =>
          /\ fault = ""
          /\ file = List(loaded.v \o Uids(ExpectedAssignments(feed, loaded.v,
                                              start_of_last_month(today))))
    /\ (pc = "done" /\ feed = FeedExample /\ loaded.v = <<>>) => file = List(<<"u1">>)

\* C9's case: a fault-free run on the example feed with an empty ledger has
\* written the file.
ExampleRunStoredU1 ==
    /\ pc = "done" /\ feed = FeedExample /\ loaded = List(<<>>)
    /\ updated = <<"u1">> /\ file = List(<<"u1">>)

\* C10: over any sequence of runs against an unchanged feed with distinct
\* UIDs, runs that may abort with a backend fault in the push loop, no event
\* has a task created for it more than once.
NoTaskCreatedTwice == \A u \in UIDs : tasks[u] <= 1

====
